---- MODULE Spec2Model ----
(***************************************************************************)
(* A model of the `imprint` crate (src/src/lib.rs): values imprinted at    *)
(* the type level (Val<'x, T>), propositional type equality (TyEq<T, U>)   *)
(* and existentially quantified lifetimes (Exists<F>).                     *)
(*                                                                         *)
(* Types are part of the modelled state: a value is a pair of its static   *)
(* type and its run-time representation (a sequence of words).  The guards *)
(* of the actions are the typing rules the compiler enforces (a witness    *)
(* TyEq<A, B> casts only a value of type A; a moved value is not used      *)
(* again; a marker does not leave the call that minted it).                *)
(***************************************************************************)
EXTENDS Integers, Sequences, FiniteSets, TLC

\* ---------------------------------------------------------------- bounds
MaxVal == 1        \* the inner type T has the values 0..MaxVal
MaxTags == 2       \* calls of imprint / Exists::with (markers minted)
MaxVals == 3       \* containers created in one run
MaxSize == 2       \* sizes, in words, of the two types apply converts between

VARIABLES
    copyT,   \* whether the inner type T is Copy (then Val<'x, T> is Copy)
    stack,   \* ids of the running imprint / with calls, innermost last
    calls,   \* every call made so far, indexed by the marker it minted
    vals,    \* every container created so far
    exs,     \* the Exists wrappers created so far
    acc,     \* the last expression evaluated, with its value
    alg,     \* the registers of a straight-line use of TyEq (SpecTyEq)
    own      \* who owns the payload inside apply / Exists::new (SpecOwn)

vars == <<copyT, stack, calls, vals, exs, acc, alg, own>>

TValues == 0..MaxVal

\* ----------------------------------------------------------------- types
\* The marker 'static: the one marker that exists outside every call.
STATIC == 0

\* The type Val<'t, T>.
ValTy(t) == [k |-> "Val", tag |-> t]

\* The type TyEq<A, B>.
TyEqTy(A, B) == [k |-> "TyEq", l |-> A, r |-> B]

\* Some type F(X) of a given size, for a type function F of the caller.
ShapeTy(n) == [k |-> "Shape", size |-> n]

\* mem::size_of, in words: Val<'x, T> is its inner T (the tag is PhantomData),
\* TyEq<T, U> is two PhantomData.
size_of(ty) ==
    CASE ty.k = "Val" -> 1
      [] ty.k = "TyEq" -> 0
      [] ty.k = "Shape" -> ty.size

\* <F as TyFn<X>>::Output for the type functions of the crate: Identity, the
\* F<T> local to sym (Output = TyEq<X, T>), the F<T> local to trans
\* (Output = TyEq<T, X>).
TyFnOutput(F, X) ==
    CASE F.f = "Identity" -> X
      [] F.f = "SymF" -> TyEqTy(X, F.p)
      [] F.f = "TransF" -> TyEqTy(F.p, X)

Identity == [f |-> "Identity"]

\* --------------------------------------------------------------- Val
\* T_default is the default of the inner type (an integer type).
T_default == 0

\* A constructor that stores the default instead of the value given.
Val_new_default(t, value) == [typ |-> ValTy(t), bits |-> <<T_default>>]

\* Val { tag: PhantomData, inner: value }
Val_new(t, value) == [typ |-> ValTy(t), bits |-> <<value>>]

\* Default for Val<'static, T>
Val_default == Val_new(STATIC, T_default)

\* Deref: &self.inner
Val_deref(v) == v.bits[1]

\* The derived PartialEq of Val: the tags are PhantomData, the inners decide.
Val_PartialEq(x, y) == x.bits[1] = y.bits[1]

\* IntoInner::into_inner: self.inner
Val_into_inner(v) == v.bits[1]

\* arith::partial_equal(x, y): Some(evidence) exactly when x == y.
partial_equal(x, y) == Val_deref(x) = Val_deref(y)

\* TyEq::refl()
TyEq_refl(A) == [typ |-> TyEqTy(A, A), bits |-> <<>>]

\* Equal::into_ty_eq: the evidence as a TyEq<Val<'x, T>, Val<'y, T>>.
into_ty_eq(x, y) == [typ |-> TyEqTy(x.typ, y.typ), bits |-> <<>>]

None == [some |-> FALSE]
Some(x) == [some |-> TRUE, v |-> x]

\* An eq that also wants the two markers to be the same.
Val_eq_same_marker(self, other) ==
    IF partial_equal(self, other) /\ self.typ = other.typ
    THEN Some(into_ty_eq(self, other)) ELSE None

\* An eq that hands out the evidence whatever the comparison says.
Val_eq_unchecked(self, other) == Some(into_ty_eq(self, other))

\* Val::eq: arith::partial_equal(self, other).map(|eq| eq.into_ty_eq())
Val_eq(self, other) ==
    IF partial_equal(self, other) THEN Some(into_ty_eq(self, other)) ELSE None

\* --------------------------------------------------------------- TyEq
\* A reinterpretation that zeroes the result instead of copying the words.
transmute_zeroed(value, Dst) ==
    [typ |-> Dst, bits |-> [i \in 1..size_of(Dst) |-> 0]]

\* mem::transmute_copy(&value): size_of::<Dst>() words read from the start of
\* value, typed Dst.
transmute_copy(value, Dst) ==
    [typ |-> Dst, bits |-> SubSeq(value.bits, 1, size_of(Dst))]

\* TyEq::apply::<F>(self, value): value : F(T) reinterpreted as F(U).
TyEq_apply(self, F, value) ==
    transmute_copy(value, TyFnOutput(F, self.typ.r))

\* The debug_assert_eq! of apply: F(T) and F(U) have one size.
apply_sizes_agree(self, F) ==
    size_of(TyFnOutput(F, self.typ.l)) = size_of(TyFnOutput(F, self.typ.r))

\* What the signature of apply demands of its argument.
ApplyTyped(self, F, value) == value.typ = TyFnOutput(F, self.typ.l)

\* A sym that hands back the witness as it is.
TyEq_sym_unswapped(self) == self

\* TyEq::sym: self.apply::<F<T>>(TyEq::refl())
TyEq_sym(self) ==
    TyEq_apply(self, [f |-> "SymF", p |-> self.typ.l], TyEq_refl(self.typ.l))

\* A trans with receiver and argument of apply exchanged.
TyEq_trans_swapped(self, other) ==
    TyEq_apply(self, [f |-> "TransF", p |-> self.typ.l], other)

\* TyEq::trans: other.apply::<F<T>>(self)
TyEq_trans(self, other) ==
    TyEq_apply(other, [f |-> "TransF", p |-> self.typ.l], self)

\* TyEq::cast: self.apply::<Identity>(value)
TyEq_cast(self, value) == TyEq_apply(self, Identity, value)

\* --------------------------------------------------------------- Exists
\* A capture that keeps a default container instead of the one given.
Exists_new_default(value) == [typ |-> ValTy(STATIC), bits |-> <<T_default>>]

\* Exists::new: ptr::read of the value through a pointer retyped to
\* <F as TyFnL<'static>>::Output, wrapped in Exists.
Exists_new(value) == [typ |-> ValTy(STATIC), bits |-> value.bits]

\* Exists::with hands self.0 to the callback under the marker the callback is
\* instantiated at.
Exists_open(e, t) == [typ |-> ValTy(t), bits |-> e.bits]

\* --------------------------------------------------------------- imprint
\* An imprint that drops the result of its callback.
imprint_result_dropped(cbret) == [kind |-> "unit"]

\* imprint returns what its callback returns.
imprint_result(cbret) == cbret

\* How often imprint and Exists::with call their callback.
InvokeCount == 1

\* ---------------------------------------------------------------- state
Unit == [kind |-> "unit"]

\* What is left of a container that was moved out of its binding or dropped.
Gone == [val |-> [typ |-> [k |-> "None"], bits |-> <<>>], st |-> "Gone"]

\* Whether the expression just evaluated was into_inner on the container in
\* slot s.
Extracted(s) == acc.kind = "inner" /\ acc.slot = s

Slots == 1..Len(vals)
Usable(s) == vals[s].st # "Gone"
Top == IF stack = <<>> THEN 0 ELSE stack[Len(stack)]
InScope(t) == t = STATIC \/ \E i \in 1..Len(stack) : stack[i] = t

Container(v) == [val |-> v, st |-> "Live"]

\* Passing by value without moving: what by-reference receivers would do.
Consume_kept(c) == c

\* Passing a container by value: a Copy container stays usable, any other is
\* moved out of its binding.
Consume(c) == IF copyT THEN c ELSE Gone

\* The call record of imprint / Exists::with, once the callback is called.
Call(kind, arg) ==
    [kind |-> kind, parent |-> Top, arg |-> arg, slot |-> Len(vals) + 1,
     status |-> "running", invoked |-> InvokeCount]

\* What is kept of a call that returned.
Returned(c) ==
    [kind |-> "done", parent |-> c.parent, arg |-> 0, slot |-> 0,
     status |-> "returned", invoked |-> c.invoked]

\* The value of the last expression: a call's value is what the call returned.
Value(a) == IF a.kind = "ret" THEN a.v ELSE a

AlgIdle == [pc |-> "idle"]
OwnIdle == [pc |-> "idle"]

Init ==
    /\ copyT \in BOOLEAN
    /\ stack = <<>>
    /\ calls = <<>>
    /\ vals = <<>>
    /\ exs = <<>>
    /\ acc = Unit
    /\ alg = AlgIdle
    /\ own = OwnIdle

\* imprint(value, callback), up to the call of the callback.
Imprint(value) ==
    /\ Len(calls) + Len(exs) < MaxTags
    /\ Len(vals) < MaxVals
    /\ vals' = Append(vals, Container(Val_new(Len(calls) + 1, value)))
    /\ calls' = Append(calls, Call("imprint", value))
    /\ stack' = Append(stack, Len(calls) + 1)
    /\ acc' = Unit
    /\ UNCHANGED <<alg, own, copyT, exs>>

\* The callback of the innermost call returns, and with it the call: the
\* containers of its marker go out of scope.
Return ==
    /\ stack # <<>>
    /\ calls' = [calls EXCEPT ![Top] = Returned(@)]
    /\ stack' = SubSeq(stack, 1, Len(stack) - 1)
    /\ vals' = [s \in Slots |->
                  IF vals[s].val.typ = ValTy(Top) THEN Gone ELSE vals[s]]
    /\ acc' = [kind |-> "ret", call |-> calls[Top], cb |-> Value(acc),
               v |-> imprint_result(Value(acc))]
    /\ UNCHANGED <<alg, own, copyT, exs>>

\* Default::default() for Val<'static, T>
Default ==
    /\ Len(vals) < MaxVals
    /\ vals' = Append(vals, Container(Val_default))
    /\ UNCHANGED <<alg, own, copyT, stack, calls, exs, acc>>

\* Clone / Copy of a container (derived; needs T: Copy).
Copy(s) ==
    /\ copyT
    /\ Usable(s)
    /\ Len(vals) < MaxVals
    /\ vals' = Append(vals, Container(vals[s].val))
    /\ UNCHANGED <<alg, own, copyT, stack, calls, exs, acc>>

\* *v, v.as_ref(), v.borrow()
Deref(s) ==
    /\ Usable(s)
    /\ acc' = [kind |-> "ref", v |-> Val_deref(vals[s].val),
               late |-> Extracted(s)]
    /\ UNCHANGED <<alg, own, copyT, stack, calls, vals, exs>>

\* v.into_inner()
IntoInner(s) ==
    /\ Usable(s)
    /\ vals' = [vals EXCEPT ![s] = Consume(@)]
    /\ acc' = [kind |-> "inner", slot |-> s, v |-> Val_into_inner(vals[s].val),
               late |-> Extracted(s)]
    /\ UNCHANGED <<alg, own, copyT, stack, calls, exs>>

\* a.eq(&b)
Eq(a, b) ==
    /\ Usable(a)
    /\ Usable(b)
    /\ acc' = [kind |-> "eq", self |-> vals[a].val, other |-> vals[b].val,
               res |-> Val_eq(vals[a].val, vals[b].val),
               late |-> Extracted(a) \/ Extracted(b)]
    /\ UNCHANGED <<alg, own, copyT, stack, calls, vals, exs>>

\* The witness at hand: the one the last eq returned (also as the value of a
\* call whose callback returned it), while the markers it names are in scope.
AtHand == Value(acc)

HasWit ==
    /\ AtHand.kind = "eq"
    /\ AtHand.res.some
    /\ InScope(AtHand.res.v.typ.l.tag)
    /\ InScope(AtHand.res.v.typ.r.tag)

\* The container a witness makes of the container in slot s.
CastBy(w, s) ==
    /\ Usable(s)
    /\ ApplyTyped(w, Identity, vals[s].val)
    /\ apply_sizes_agree(w, Identity)
    /\ Len(vals) < MaxVals
    /\ vals' = Append([vals EXCEPT ![s] = Consume(@)],
                      Container(TyEq_cast(w, vals[s].val)))
    /\ acc' = [kind |-> "cast", via |-> w, src |-> vals[s].val,
               out |-> TyEq_cast(w, vals[s].val)]
    /\ UNCHANGED <<alg, own, copyT, stack, calls, exs>>

\* TyEq::refl().cast(v)
CastRefl(s) == CastBy(TyEq_refl(vals[s].val.typ), s)

\* a.eq(&b).unwrap().cast(v)
Cast(s) == HasWit /\ CastBy(AtHand.res.v, s)

\* a.eq(&b).unwrap().sym().cast(v)
CastSym(s) == HasWit /\ CastBy(TyEq_sym(AtHand.res.v), s)

\* a.eq(&b).unwrap().trans(b.eq(&c).unwrap()).cast(v)
CastTrans(b, c, s) ==
    /\ HasWit
    /\ Usable(b)
    /\ Usable(c)
    /\ vals[b].val.typ = AtHand.res.v.typ.r
    /\ Val_eq(vals[b].val, vals[c].val).some
    /\ CastBy(TyEq_trans(AtHand.res.v, Val_eq(vals[b].val, vals[c].val).v), s)

\* Exists::new(v)
Capture(s) ==
    /\ Usable(s)
    /\ Len(calls) + Len(exs) < MaxTags
    /\ exs' = Append(exs, [val |-> Exists_new(vals[s].val),
                           orig |-> Val_deref(vals[s].val)])
    /\ vals' = [vals EXCEPT ![s] = Consume(@)]
    /\ UNCHANGED <<alg, own, copyT, stack, calls, acc>>

\* e.with(callback), up to the call of the callback; the wrapper is consumed.
Open(e) ==
    /\ Len(vals) < MaxVals
    /\ vals' = Append(vals, Container(Exists_open(exs[e].val, Len(calls) + 1)))
    /\ calls' = Append(calls, Call("with", exs[e].orig))
    /\ stack' = Append(stack, Len(calls) + 1)
    /\ exs' = [i \in 1..(Len(exs) - 1) |-> IF i < e THEN exs[i] ELSE exs[i + 1]]
    /\ acc' = Unit
    /\ UNCHANGED <<alg, own, copyT>>

Next ==
    \/ \E value \in TValues : Imprint(value)
    \/ Return
    \/ Default
    \/ \E s \in Slots : Copy(s)
    \/ \E s \in Slots : Deref(s)
    \/ \E s \in Slots : IntoInner(s)
    \/ \E a, b \in Slots : Eq(a, b)
    \/ \E s \in Slots : CastRefl(s)
    \/ \E s \in Slots : Cast(s)
    \/ \E s \in Slots : CastSym(s)
    \/ \E b, c, s \in Slots : CastTrans(b, c, s)
    \/ \E s \in Slots : Capture(s)
    \/ \E e \in 1..Len(exs) : Open(e)

Spec == Init /\ [][Next]_vars

\* ---------------------------------------------- straight-line use of TyEq
main == <<copyT, stack, calls, vals, exs, acc>>

MainIdle ==
    /\ copyT = FALSE
    /\ stack = <<>>
    /\ calls = <<>>
    /\ vals = <<>>
    /\ exs = <<>>
    /\ acc = Unit

\* A witness TyEq<Val<'a, T>, Val<'b, T>>.
Wit(a, b) == [typ |-> TyEqTy(ValTy(a), ValTy(b)), bits |-> <<>>]

\* Witnesses e : A = B and f : B = C, a container v of type A and a container
\* u of type B, each marker that of one of up to MaxVals containers.  Markers
\* related by a witness hold one value, and the marker 'static holds the
\* default.
InitTyEq ==
    /\ MainIdle
    /\ own = OwnIdle
    /\ \E a, b, c \in 0..MaxVals, x \in TValues :
          /\ STATIC \in {a, b, c} => x = T_default
          /\ alg = [pc |-> "start", e |-> Wit(a, b), f |-> Wit(b, c),
                    v |-> Val_new(a, x), u |-> Val_new(b, x),
                    w |-> Unit, r1 |-> Unit, r2 |-> Unit]

\* r1 = e.cast(v)
AlgCast ==
    /\ alg.pc = "start"
    /\ alg' = [alg EXCEPT !.pc = "cast", !.r1 = TyEq_cast(alg.e, alg.v)]
    /\ UNCHANGED <<main, own>>

\* r2 = e.sym().cast(r1)
AlgBack ==
    /\ alg.pc = "cast"
    /\ alg' = [alg EXCEPT !.pc = "back", !.w = TyEq_sym(alg.e),
                          !.r2 = TyEq_cast(TyEq_sym(alg.e), alg.r1)]
    /\ UNCHANGED <<main, own>>

\* r1 = e.sym().cast(u)
AlgSymCast ==
    /\ alg.pc = "start"
    /\ alg' = [alg EXCEPT !.pc = "symcast", !.w = TyEq_sym(alg.e),
                          !.r1 = TyEq_cast(TyEq_sym(alg.e), alg.u)]
    /\ UNCHANGED <<main, own>>

\* r2 = e.cast(r1)
AlgForth ==
    /\ alg.pc = "symcast"
    /\ alg' = [alg EXCEPT !.pc = "forth", !.r2 = TyEq_cast(alg.e, alg.r1)]
    /\ UNCHANGED <<main, own>>

\* w = e.sym().sym(); r1 = w.cast(v); r2 = e.cast(v)
AlgSymSym ==
    /\ alg.pc = "start"
    /\ alg' = [alg EXCEPT !.pc = "symsym", !.w = TyEq_sym(TyEq_sym(alg.e)),
                          !.r1 = TyEq_cast(TyEq_sym(TyEq_sym(alg.e)), alg.v),
                          !.r2 = TyEq_cast(alg.e, alg.v)]
    /\ UNCHANGED <<main, own>>

\* w = e.trans(f); r1 = w.cast(v)
AlgTrans ==
    /\ alg.pc = "start"
    /\ alg' = [alg EXCEPT !.pc = "trans", !.w = TyEq_trans(alg.e, alg.f),
                          !.r1 = TyEq_cast(TyEq_trans(alg.e, alg.f), alg.v)]
    /\ UNCHANGED <<main, own>>

\* r2 = f.cast(e.cast(v))
AlgSeq ==
    /\ alg.pc = "trans"
    /\ alg' = [alg EXCEPT !.pc = "seq",
                          !.r2 = TyEq_cast(alg.f, TyEq_cast(alg.e, alg.v))]
    /\ UNCHANGED <<main, own>>

NextTyEq ==
    \/ AlgCast
    \/ AlgBack
    \/ AlgSymCast
    \/ AlgForth
    \/ AlgSymSym
    \/ AlgTrans
    \/ AlgSeq

SpecTyEq == InitTyEq /\ [][NextTyEq]_vars

\* ------------------------------------- ownership inside apply / Exists::new
\* A forget that leaves the binding an owner.
mem_forget_missing(holders, binding) == holders

\* mem::forget(value): the binding stops owning, no destructor runs.
mem_forget(holders, binding) == holders \ {binding}

\* What a function's exit (return or unwinding) drops: what its locals own.
Locals == {"value", "result"}

\* One call of TyEq::apply::<F> ("apply") or Exists::new ("new") on a payload
\* with a destructor: the build has debug assertions or not, F(T) and F(U)
\* have sizes szT and szU (Exists::new changes a lifetime only).
InitOwn ==
    /\ MainIdle
    /\ alg = AlgIdle
    /\ \E op \in {"apply", "new"}, debug \in BOOLEAN,
          szT, szU \in 0..MaxSize, x \in TValues :
          /\ op = "new" => szT = szU
          /\ own = [pc |-> IF op = "apply" THEN "assert" ELSE "copy",
                    op |-> op, debug |-> debug, dst |-> ShapeTy(szU),
                    value |-> [typ |-> ShapeTy(szT),
                               bits |-> [i \in 1..szT |-> x]],
                    result |-> Unit, holders |-> {"value"}, drops |-> 0]

\* debug_assert_eq!(size_of F(T), size_of F(U)): panics when it is compiled
\* in and the sizes differ.
OwnAssert ==
    /\ own.pc = "assert"
    /\ own' = [own EXCEPT
                 !.pc = IF own.debug /\ size_of(own.value.typ) # size_of(own.dst)
                        THEN "unwind" ELSE "copy"]
    /\ UNCHANGED <<main, alg>>

\* let result = transmute_copy(&value) / ptr::read(&value as ...): a second
\* owner of the words read.
OwnCopy ==
    /\ own.pc = "copy"
    /\ size_of(own.dst) <= size_of(own.value.typ)
    /\ own' = [own EXCEPT !.pc = "forget",
                          !.result = transmute_copy(own.value, own.dst),
                          !.holders = own.holders \cup {"result"}]
    /\ UNCHANGED <<main, alg>>

\* transmute_copy to a larger type reads past the value, which is undefined:
\* any result, any owners and any number of destructor runs may follow.
OwnCopyUndefined ==
    /\ own.pc = "copy"
    /\ size_of(own.dst) > size_of(own.value.typ)
    /\ \E d \in 0..2, h \in SUBSET {"caller"}, x \in TValues :
          own' = [own EXCEPT !.pc = "undefined",
                             !.result = [typ |-> own.dst,
                                         bits |-> [i \in 1..size_of(own.dst) |-> x]],
                             !.holders = h, !.drops = d]
    /\ UNCHANGED <<main, alg>>

\* mem::forget(value)
OwnForget ==
    /\ own.pc = "forget"
    /\ own' = [own EXCEPT !.pc = "return",
                          !.holders = mem_forget(own.holders, "value")]
    /\ UNCHANGED <<main, alg>>

\* result / Exists(result): the result moves to the caller, what the locals
\* still own is dropped.
OwnReturn ==
    /\ own.pc = "return"
    /\ own' = [own EXCEPT !.pc = "returned",
                          !.holders = IF "result" \in own.holders
                                      THEN {"caller"} ELSE {},
                          !.drops = own.drops
                                    + Cardinality(own.holders \ {"result"})]
    /\ UNCHANGED <<main, alg>>

\* The panic of the assertion unwinds apply: its locals are dropped.
OwnUnwind ==
    /\ own.pc = "unwind"
    /\ own' = [own EXCEPT !.pc = "panicked",
                          !.holders = own.holders \ Locals,
                          !.drops = own.drops
                                    + Cardinality(own.holders \cap Locals)]
    /\ UNCHANGED <<main, alg>>

\* The caller's binding of the result goes out of scope.
OwnDrop ==
    /\ own.pc = "returned"
    /\ own' = [own EXCEPT !.pc = "dropped", !.holders = {},
                          !.drops = own.drops + Cardinality(own.holders)]
    /\ UNCHANGED <<main, alg>>

NextOwn ==
    \/ OwnAssert
    \/ OwnCopy
    \/ OwnCopyUndefined
    \/ OwnForget
    \/ OwnReturn
    \/ OwnUnwind
    \/ OwnDrop

SpecOwn == InitOwn /\ [][NextOwn]_vars

\* ------------------------------------------------------------- properties
Returns(kind) ==
    /\ acc.kind = "ret"
    /\ acc.call.kind = kind
    /\ acc.cb.kind = "inner"
    /\ acc.cb.slot = acc.call.slot

\* C1: imprint(v, |x| x.into_inner()) returns v: whenever a call of imprint
\* returns and its callback returned into_inner of the container it was
\* handed, the call's value is the value passed to imprint.
C1_ImprintIntoInner ==
    Returns("imprint") => acc.v.kind = "inner" /\ acc.v.v = acc.call.arg

C1_Witness == Returns("imprint") /\ acc.call.arg = MaxVal

\* C2: a.eq(&b) returns a witness exactly when the inner values are equal,
\* whatever the markers of a and b; the witness relates the two container
\* types; unequal values give None (a value, not an error).
C2_EqIffEqual ==
    acc.kind = "eq" =>
        /\ acc.res.some <=> (Val_deref(acc.self) = Val_deref(acc.other))
        /\ acc.res.some =>
              acc.res.v = [typ |-> TyEqTy(acc.self.typ, acc.other.typ),
                           bits |-> <<>>]
        /\ ~acc.res.some => acc.res = None

C2_Witness ==
    /\ acc.kind = "eq"
    /\ acc.res.some
    /\ acc.self.typ # acc.other.typ
    /\ acc.self.typ.tag # STATIC
    /\ acc.other.typ.tag # STATIC
    /\ Val_deref(acc.self) = MaxVal

\* C3: casting a value through a witness TyEq<A, B> (from refl, from a
\* successful eq, or from sym / trans of one) takes a value of type A and
\* returns a value of type B with the same representation, which compares
\* equal to every container of type B at hand.
C3_CastPreserves ==
    acc.kind = "cast" =>
        /\ acc.src.typ = acc.via.typ.l
        /\ acc.out.typ = acc.via.typ.r
        /\ acc.out.bits = acc.src.bits
        /\ Val_PartialEq(acc.out, acc.src)
        /\ \A s \in Slots :
              Usable(s) /\ vals[s].val.typ = acc.out.typ
                  => Val_PartialEq(acc.out, vals[s].val)

C3_Witness ==
    /\ acc.kind = "cast"
    /\ acc.via.typ.l # acc.via.typ.r
    /\ Val_deref(acc.src) = MaxVal
    /\ \E s \in Slots : Usable(s) /\ vals[s].val = acc.out

\* C6: Exists::new(c).with(|v| v.into_inner()) is the inner value of c; the
\* callback of with is handed the payload of c under the marker minted for
\* this call.
C6_CaptureOpen ==
    /\ Returns("with") => acc.v.kind = "inner" /\ acc.v.v = acc.call.arg
    /\ \A i \in 1..Len(calls) :
          calls[i].kind = "with" /\ Usable(calls[i].slot)
              => vals[calls[i].slot].val = Val_new(i, calls[i].arg)

C6_Witness == Returns("with") /\ acc.call.arg = MaxVal

\* C7: every call of imprint / Exists::with calls its callback exactly once,
\* returns what the callback returned, and returns only after every call
\* started inside its callback has returned.
C7_CallbackOnce ==
    /\ \A i \in 1..Len(calls) : calls[i].invoked = 1
    /\ acc.kind = "ret" => acc.v = acc.cb /\ acc.call.invoked = 1
    /\ \A i, j \in 1..Len(calls) :
          calls[i].status = "returned" /\ calls[j].parent = i
              => calls[j].status = "returned"
    /\ \A i \in 1..Len(calls) :
          calls[i].status = "running" <=> \E k \in 1..Len(stack) : stack[k] = i
    /\ \A k \in 1..Len(stack) :
          calls[stack[k]].parent = IF k = 1 THEN 0 ELSE stack[k - 1]

C7_Witness ==
    /\ Len(calls) >= 2
    /\ calls[2].parent = 1
    /\ calls[1].status = "returned"
    /\ calls[2].status = "returned"
    /\ acc.kind = "ret"
    /\ acc.v.kind = "inner"

\* C8: the inner type being an integer type (its equality an equivalence,
\* its values immutable), any two containers at hand that carry the same
\* marker hold equal inner values.
C8_Singleton ==
    \A s, t \in Slots :
        Usable(s) /\ Usable(t) /\ vals[s].val.typ = vals[t].val.typ
            => Val_PartialEq(vals[s].val, vals[t].val)

C8_Witness ==
    /\ acc.kind = "cast"
    /\ acc.via.typ.l # acc.via.typ.r
    /\ Val_deref(acc.out) = MaxVal
    /\ \E s, t \in Slots :
          /\ s # t
          /\ Usable(s)
          /\ Usable(t)
          /\ vals[s].val = acc.out
          /\ vals[t].val = acc.out

Late == acc.kind \in {"ref", "eq", "inner"} /\ acc.late

\* C9 (as claimed): after into_inner on a container, no operation (deref,
\* eq, another into_inner) is performed on that container.
C9_ExtractionTerminal == ~Late

\* C9 (amended): when the inner type is not Copy, into_inner consumes the
\* container: it is gone from its binding and no operation follows on it.
C9_ExtractionTerminalUnlessCopy ==
    ~copyT =>
        /\ ~Late
        /\ acc.kind = "inner" => vals[acc.slot] = Gone

C9_Witness == ~copyT /\ acc.kind = "inner" /\ vals[acc.slot] = Gone

\* C4: for a witness e : A = B, e.sym() is a witness B = A;
\* e.sym().cast(e.cast(v)) is v, e.cast(e.sym().cast(u)) is u, and
\* e.sym().sym() is e and casts as e does.
C4_SymRoundTrip ==
    /\ alg.pc = "back" =>
          /\ alg.w.typ = TyEqTy(alg.e.typ.r, alg.e.typ.l)
          /\ alg.r2 = alg.v
    /\ alg.pc = "forth" => alg.r2 = alg.u
    /\ alg.pc = "symsym" => alg.w = alg.e /\ alg.r1 = alg.r2

C4_Witness ==
    /\ alg.pc = "back"
    /\ alg.e.typ.l # alg.e.typ.r
    /\ Val_deref(alg.v) = MaxVal

\* C5: for witnesses e : A = B and f : B = C, e.trans(f) is a witness A = C
\* and e.trans(f).cast(v) is f.cast(e.cast(v)).
C5_Trans ==
    alg.pc = "seq" =>
        /\ alg.w.typ = TyEqTy(alg.e.typ.l, alg.f.typ.r)
        /\ alg.r1 = alg.r2

C5_Witness ==
    /\ alg.pc = "seq"
    /\ alg.e.typ.l # alg.e.typ.r
    /\ alg.f.typ.l # alg.f.typ.r
    /\ alg.e.typ.l # alg.f.typ.r
    /\ Val_deref(alg.v) = MaxVal

OwnedOnce ==
    /\ own.drops <= 1
    /\ own.drops + Cardinality(own.holders) >= 1
    /\ own.pc = "returned" =>
          /\ own.holders = {"caller"}
          /\ own.result.typ = own.dst
          /\ own.result.bits = own.value.bits
          /\ own.drops = 0
    /\ own.pc \in {"dropped", "panicked", "undefined"} =>
          /\ own.holders = {}
          /\ own.drops = 1

\* C10 (as claimed): on every path of apply and of Exists::new the payload
\* has one owner after the call, holding the words passed in, and its
\* destructor runs exactly once overall (also when the size assertion of
\* apply fails).
C10_OwnedOnce == own.pc # "idle" => OwnedOnce

\* C10 (amended): the same, for the calls whose two sizes agree and, in a
\* build with debug assertions, for those where they differ (the assertion
\* panics before the copy and unwinding drops the payload once).
C10_OwnedOnceDefined ==
    (own.pc # "idle" /\ (own.debug \/ size_of(own.value.typ) = size_of(own.dst)))
        => OwnedOnce

C10_Witness ==
    /\ own.pc = "dropped"
    /\ own.op = "apply"
    /\ own.debug
    /\ own.value.bits = <<MaxVal>>
    /\ own.drops = 1

====
